---- MODULE Spec2Model ----
(***************************************************************************)
(* Model of EmperorBot (src/main.py): the reply decision                   *)
(* (should_reply_to_message), the response generator with its cache        *)
(* (get_ai_response, process_image_message), the ledger of processed       *)
(* message ids (load/save_processed_messages) and the poll loop (run).     *)
(*                                                                         *)
(* Strings are sequences of one-character strings, so that lower(),        *)
(* substring search, slicing and concatenation are computed as the code    *)
(* computes them.  A missing text (None) is the empty sequence: the code   *)
(* reads message.text only through `message.text or ""`, `if message.text` *)
(* and a log line, which treat None and "" alike.                          *)
(*                                                                         *)
(* Capacities and durations are scaled: LEDGER_LIMIT stands for the 500    *)
(* ids of save_processed_messages, CACHE_LIMIT for the 100 cache entries,  *)
(* MAX_AGE for the 300 seconds of the staleness test.  The clock counts    *)
(* ticks; process_message sleeps at least one tick before it records an    *)
(* id, and the scaled values keep the order the source has between the     *)
(* time it takes to record LEDGER_LIMIT ids (500 sleeps of >= 1 s) and the *)
(* staleness window (300 s).                                               *)
(***************************************************************************)
EXTENDS Integers, Sequences, FiniteSets, TLC

VARIABLES
    pc,                    \* where run() stands
    model,                 \* self.model: the adopted model, or NoModel
    CREATOR_ID,            \* os.getenv("CREATOR_USER_ID", ""), fixed for a run
    processed_msgs,        \* self.processed_msgs, the in-memory ledger
    processed_file,        \* content of PROCESSED_FILE on disk
    response_cache,        \* self.response_cache, in insertion order
    conversation_history,  \* self.conversation_history
    error_count,           \* error_count of run()
    clock,                 \* time.time(), in ticks
    inbox,                 \* messaging backend: thread id -> newest message
    threads,               \* threads of the current pass not yet visited
    temp_images,           \* files of TEMP_DIR, by the id they were downloaded for
    issued,                \* messaging backend: number of message ids handed out
    recorded,              \* history: ids ever appended to the ledger
    last,                  \* history: what the last loop iteration did
    calls,                 \* history: the last two get_ai_response calls
    log                    \* history: the ids recorded, in recording order

vars == <<pc, model, CREATOR_ID, processed_msgs, processed_file, response_cache,
          conversation_history, error_count, clock, inbox, threads, temp_images,
          issued, recorded, last, calls, log>>

----------------------------------------------------------------------------
(* Bounds of the model and scaled program limits.                          *)

LEDGER_LIMIT == 2        \* 500 in save_processed_messages
CACHE_LIMIT == 2         \* 100 in get_ai_response
MAX_AGE == 1             \* 300 seconds in should_reply_to_message
MaxClock == 3            \* the clock stops advancing here
MaxMsgs == 3             \* message ids the backend hands out
MaxErrors == 1           \* consecutive errors the poll loop of Spec is let run into
MaxIds == 4              \* distinct ids LedgerSpec records
MaxBackoff == 7          \* consecutive errors the poll loop of BackoffSpec is let run into

(* Program constants kept at their value.                                  *)
KEY_CHARS == 50          \* text[:50]
REPLY_MAX == 150         \* len(reply) > 150
REPLY_KEEP == 147        \* reply[:147]
NATURAL_EVERY == 10      \* % 10
GROUP_OVER == 2          \* len(thread.users) > 2
ERROR_THRESHOLD == 5     \* error_count > 5

----------------------------------------------------------------------------
(* Strings.                                                                *)

Repeat(c, n) == [i \in 1..n |-> c]

Take(s, n) == SubSeq(s, 1, IF Len(s) < n THEN Len(s) ELSE n)

UpperToLower == [c \in {"A","B","E","I","M","O","P","R","T","H"} |->
                   CASE c = "A" -> "a" [] c = "B" -> "b" [] c = "E" -> "e"
                     [] c = "I" -> "i" [] c = "M" -> "m" [] c = "O" -> "o"
                     [] c = "P" -> "p" [] c = "R" -> "r" [] c = "T" -> "t"
                     [] c = "H" -> "h"]

lower(s) == [i \in 1..Len(s) |->
               IF s[i] \in DOMAIN UpperToLower THEN UpperToLower[s[i]] ELSE s[i]]

OccursAt(sub, s, i) ==
    /\ i >= 1
    /\ i + Len(sub) - 1 <= Len(s)
    /\ SubSeq(s, i, i + Len(sub) - 1) = sub

Contains(sub, s) == \E i \in 1..(Len(s) + 1) : OccursAt(sub, s, i)

endswith(s, suf) == Len(s) >= Len(suf) /\ OccursAt(suf, s, Len(s) - Len(suf) + 1)

\* re.search of  .*a.*b  : an occurrence of a, and one of b at or after its end
FollowedBy(a, b, s) ==
    \E i \in 1..(Len(s) + 1), j \in 1..(Len(s) + 1) :
        OccursAt(a, s, i) /\ OccursAt(b, s, j) /\ j >= i + Len(a)

blank(s) == \A i \in 1..Len(s) : s[i] = " "

lstrip(s) ==
    IF blank(s) THEN <<>>
    ELSE SubSeq(s, CHOOSE i \in 1..Len(s) :
                       s[i] # " " /\ \A j \in 1..(i - 1) : s[j] = " ", Len(s))

rstrip(s) ==
    IF blank(s) THEN <<>>
    ELSE SubSeq(s, 1, CHOOSE i \in 1..Len(s) :
                          s[i] # " " /\ \A j \in (i + 1)..Len(s) : s[j] = " ")

strip(s) == rstrip(lstrip(s))

emperor == <<"e","m","p","e","r","o","r">>
QMARK == <<"?">>

already_processed == <<"a","l","r","e","a","d","y","_","p","r","o","c","e","s","s","e","d">>
too_old == <<"t","o","o","_","o","l","d">>
self_message == <<"s","e","l","f","_","m","e","s","s","a","g","e">>
creator == <<"c","r","e","a","t","o","r">>
dm == <<"d","m">>
trigger_ == <<"t","r","i","g","g","e","r","_">>
question_for_emperor == <<"q","u","e","s","t","i","o","n","_","f","o","r","_","e","m","p","e","r","o","r">>
natural_conversation == <<"n","a","t","u","r","a","l","_","c","o","n","v","e","r","s","a","t","i","o","n">>
no_reason == <<"n","o","_","r","e","a","s","o","n">>

\* the list without its last entry, '?'
triggers_without_question == << <<"@">> \o emperor, emperor, <<"!">> \o emperor, <<"e","m","p">> >>

\* self.settings['group']['triggers']
triggers == << <<"@">> \o emperor, emperor, <<"!">> \o emperor, <<"e","m","p">>, QMARK >>

\* emperor_patterns, each as (first literal, second literal) of  .*first.*second
emperor_patterns == << <<emperor, QMARK>>, <<<<"a","i">>, QMARK>>,
                       <<<<"b","o","t">>, QMARK>>, <<QMARK, emperor>> >>

----------------------------------------------------------------------------
(* should_reply_to_message.                                                *)

SELF_ID == "me"          \* self.cl.user_id

\* the other participant counted as a group
is_group_chat_over_one(thread) ==
    IF thread.hasUsers /\ Len(thread.users) > 0
    THEN Len(thread.users) > GROUP_OVER - 1
    ELSE FALSE

is_group_chat(thread) ==
    IF thread.hasUsers /\ Len(thread.users) > 0
    THEN Len(thread.users) > GROUP_OVER
    ELSE FALSE

\* the triggers tried from the last to the first
RECURSIVE first_trigger_backwards(_, _)
first_trigger_backwards(text, i) ==
    LET k == Len(triggers) + 1 - i
    IN  IF i > Len(triggers) THEN 0
        ELSE IF Contains(triggers[k], text) THEN k
        ELSE first_trigger_backwards(text, i + 1)

\* the for loop over triggers: index of the first trigger found in text, 0 if none
RECURSIVE first_trigger(_, _)
first_trigger(text, i) ==
    IF i > Len(triggers) THEN 0
    ELSE IF Contains(triggers[i], text) THEN i
    ELSE first_trigger(text, i + 1)

matches_pattern(text) ==
    \E k \in 1..Len(emperor_patterns) :
        FollowedBy(emperor_patterns[k][1], emperor_patterns[k][2], text)

Decision(reply, reason, history) ==
    [reply |-> reply, reason |-> reason, history |-> history]

\* the natural-conversation tail of the group branch; draw is
\* random.random() < natural_reply_chance
natural_branch(thread, draw, history) ==
    IF draw
    THEN LET h == IF thread.id \in DOMAIN history
                  THEN history
                  ELSE [t \in DOMAIN history \cup {thread.id} |->
                          IF t = thread.id THEN <<>> ELSE history[t]]
         IN  IF Len(h[thread.id]) % NATURAL_EVERY = 0
             THEN Decision(TRUE, natural_conversation, h)
             ELSE Decision(FALSE, no_reason, h)
    ELSE Decision(FALSE, no_reason, history)

\* the membership test left out
already_replied_never(message_id, ledger) == FALSE

\* message_id in self.processed_msgs
already_replied(message_id, ledger) == \E k \in 1..Len(ledger) : ledger[k] = message_id

\* the comparison made inclusive
is_too_old_inclusive(message, now) == now - message.timestamp >= MAX_AGE

\* message_age > 300, with message_age = time.time() - message.timestamp.timestamp()
is_too_old(message, now) == now - message.timestamp > MAX_AGE

\* message.user_id compared without str(): an int never equals the string
is_creator_unconverted(message, creatorId) == FALSE

\* CREATOR_ID and str(message.user_id) == CREATOR_ID
is_creator(message, creatorId) == creatorId # "" /\ message.user_id = creatorId

should_reply_to_message(message, thread, ledger, creatorId, now, draw, history) ==
    LET is_group == is_group_chat(thread)
        text == lower(message.text)
        hit == first_trigger(text, 1)
    IN  IF already_replied(message.id, ledger)
        THEN Decision(FALSE, already_processed, history)
        ELSE IF is_too_old(message, now)
        THEN Decision(FALSE, too_old, history)
        ELSE IF message.user_id = SELF_ID
        THEN Decision(FALSE, self_message, history)
        ELSE IF is_creator(message, creatorId)
        THEN Decision(TRUE, creator, history)
        ELSE IF ~is_group
        THEN Decision(TRUE, dm, history)
        ELSE IF hit # 0
        THEN Decision(TRUE, trigger_ \o triggers[hit], history)
        ELSE IF endswith(text, QMARK) /\ matches_pattern(text)
        THEN Decision(TRUE, question_for_emperor, history)
        ELSE natural_branch(thread, draw, history)

----------------------------------------------------------------------------
(* get_ai_response and process_image_message.                              *)

fallbacks == <<
    <<"M","y"," ","c","i","r","c","u","i","t","s"," ","a","r","e"," ","c","o","n","t","e","m","p","l","a","t","i","n","g"," ","y","o","u","r"," ","w","o","r","d","s",".",".",".">>,
    <<"T","h","e"," ","c","o","s","m","i","c"," ","e","n","e","r","g","y"," ","i","s"," ","f","l","u","c","t","u","a","t","i","n","g",".",".",".">>,
    <<"I"," ","h","e","a","r"," ","y","o","u",","," ","m","o","r","t","a","l",".">>,
    <<"Y","o","u","r"," ","m","e","s","s","a","g","e"," ","h","a","s"," ","b","e","e","n"," ","r","e","c","e","i","v","e","d",".">> >>

image_fallback == <<"I"," ","p","e","r","c","e","i","v","e"," ","t","h","e"," ","v","i","s","u","a","l"," ","d","a","t","a",".",".","."," ","i","n","t","r","i","g","u","i","n","g",".">>

\* what a call of the generative backend does: it raises, or it answers raw text
BackendFails == [ok |-> FALSE, text |-> <<>>]
BackendSays(raw) == [ok |-> TRUE, text |-> raw]

cache_key(text, context) == Take(text, KEY_CHARS) \o <<"_">> \o context

cache_index(cache, key) ==
    IF \E i \in 1..Len(cache) : cache[i].key = key
    THEN CHOOSE i \in 1..Len(cache) : cache[i].key = key
    ELSE 0

\* the newest entry popped instead of the oldest
cache_store_pops_newest(cache, key, reply) ==
    LET put == Append(cache, [key |-> key, value |-> reply])
    IN  IF Len(put) > CACHE_LIMIT THEN SubSeq(put, 1, CACHE_LIMIT) ELSE put

\* self.response_cache[cache_key] = reply, then the size limit
cache_store(cache, key, reply) ==
    LET at == cache_index(cache, key)
        put == IF at # 0
               THEN [cache EXCEPT ![at].value = reply]
               ELSE Append(cache, [key |-> key, value |-> reply])
    IN  IF Len(put) > CACHE_LIMIT THEN Tail(put) ELSE put

\* the except branch returning what was read of the response, without a fallback
get_ai_response_no_fallback(text, context, cache, backend, pick) ==
    LET key == cache_key(text, context)
        at == cache_index(cache, key)
        reply == strip(backend.text)
    IN  IF at # 0
        THEN [reply |-> cache[at].value, cache |-> cache, key |-> key,
              invoked |-> FALSE, failed |-> FALSE]
        ELSE [reply |-> reply,
              cache |-> IF backend.ok THEN cache_store(cache, key, reply) ELSE cache,
              key |-> key, invoked |-> TRUE, failed |-> ~backend.ok]

\* the result, the cache afterwards, whether the backend was invoked and
\* whether the except branch answered; pick indexes random.choice(fallbacks)
get_ai_response(text, context, cache, backend, pick) ==
    LET key == cache_key(text, context)
        at == cache_index(cache, key)
        stripped == strip(backend.text)
        reply == IF Len(stripped) > REPLY_MAX
                 THEN Take(stripped, REPLY_KEEP) \o <<".", ".", ".">>
                 ELSE stripped
    IN  IF at # 0
        THEN [reply |-> cache[at].value, cache |-> cache, key |-> key,
              invoked |-> FALSE, failed |-> FALSE]
        ELSE IF backend.ok
        THEN [reply |-> reply, cache |-> cache_store(cache, key, reply), key |-> key,
              invoked |-> TRUE, failed |-> FALSE]
        ELSE [reply |-> fallbacks[pick], cache |-> cache, key |-> key,
              invoked |-> TRUE, failed |-> TRUE]

\* how process_image_message goes: the download raises, a step after the
\* download raises (Image.open, thumbnail, generate_content, response.text),
\* or the backend describes the image
ImageOutcomes(raws) ==
    {[stage |-> "download_fails", text |-> <<>>], [stage |-> "describe_fails", text |-> <<>>]}
        \cup {[stage |-> "ok", text |-> r] : r \in raws}

\* the reply and the files of TEMP_DIR afterwards
process_image_message(message, outcome, files) ==
    CASE outcome.stage = "download_fails" ->
            [reply |-> image_fallback, files |-> files]
      [] outcome.stage = "describe_fails" ->
            [reply |-> image_fallback, files |-> files \cup {message.id}]
      [] OTHER ->
            [reply |-> strip(outcome.text), files |-> files \ {message.id}]

----------------------------------------------------------------------------
(* The ledger: load_processed_messages and save_processed_messages.        *)

Missing == [state |-> "missing", processed |-> <<>>]
Corrupt == [state |-> "corrupt", processed |-> <<>>]
Stored(ids) == [state |-> "json", processed |-> ids]

\* self.processed_msgs after load: the stored list, [] when the file does not
\* parse, and left as it is when there is no file
load_processed_messages(ledger, file) ==
    CASE file.state = "json" -> file.processed
      [] file.state = "corrupt" -> <<>>
      [] OTHER -> ledger

\* the slice left out
truncate_keeps_all(ledger) == ledger

\* the slice taken from the wrong end, [:-500]: the oldest ids stay
truncate_keeps_oldest(ledger) ==
    IF Len(ledger) > LEDGER_LIMIT
    THEN SubSeq(ledger, 1, Len(ledger) - LEDGER_LIMIT)
    ELSE ledger

\* the slice one short, [-499:]
truncate_one_short(ledger) ==
    IF Len(ledger) > LEDGER_LIMIT
    THEN SubSeq(ledger, Len(ledger) - LEDGER_LIMIT + 2, Len(ledger))
    ELSE ledger

truncate(ledger) ==
    IF Len(ledger) > LEDGER_LIMIT
    THEN SubSeq(ledger, Len(ledger) - LEDGER_LIMIT + 1, Len(ledger))
    ELSE ledger

\* a write goes through, or open() raises and the file stays, or open() has
\* emptied the file when json.dump raises
WriteOutcomes == {"written", "open_fails", "dump_fails"}

\* the file written before the list is cut: the file holds the longer list
save_writes_uncut(ledger, file, write) ==
    [ledger |-> truncate(ledger),
     file |-> CASE write = "written" -> Stored(ledger)
                [] write = "open_fails" -> file
                [] OTHER -> Corrupt]

save_processed_messages(ledger, file, write) ==
    LET kept == truncate(ledger)
    IN  [ledger |-> kept,
         file |-> CASE write = "written" -> Stored(kept)
                    [] write = "open_fails" -> file
                    [] OTHER -> Corrupt]

----------------------------------------------------------------------------
(* process_message.                                                        *)

image_types == {"media_share", "visual_media"}

NoCall == [key |-> <<>>, reply |-> <<>>, invoked |-> FALSE, failed |-> FALSE, made |-> FALSE]

\* direct_answer called whatever the reply text, the test of line 334 left out
process_message_sends_always(message, reply_reason, ledger, file, cache, files, in) ==
    LET is_image == message.item_type \in image_types
        img == process_image_message(message, in.image, files)
        gen == get_ai_response(message.text, reply_reason, cache, in.backend, in.pick)
        use_text == ~is_image /\ message.text # <<>>
        saved == save_processed_messages(Append(ledger, message.id), file, in.write)
    IN  [reply_text |-> IF is_image THEN img.reply
                        ELSE IF use_text THEN gen.reply ELSE <<>>,
         cache |-> IF use_text THEN gen.cache ELSE cache,
         files |-> IF is_image THEN img.files ELSE files,
         call |-> IF use_text
                  THEN [key |-> gen.key, reply |-> gen.reply, invoked |-> gen.invoked,
                        failed |-> gen.failed, made |-> TRUE]
                  ELSE NoCall,
         sent |-> in.send # "raises",
         raised |-> in.send = "raises",
         ledger |-> IF in.send = "raises" THEN ledger ELSE saved.ledger,
         file |-> IF in.send = "raises" THEN file ELSE saved.file]

\* in: the outcomes of what process_message calls: backend, pick, image, send, write.
\* When direct_answer raises, the exception leaves process_message at once.
process_message(message, reply_reason, ledger, file, cache, files, in) ==
    LET is_image == message.item_type \in image_types
        img == process_image_message(message, in.image, files)
        gen == get_ai_response(message.text, reply_reason, cache, in.backend, in.pick)
        use_text == ~is_image /\ message.text # <<>>
        reply_text == IF is_image THEN img.reply
                      ELSE IF use_text THEN gen.reply
                      ELSE <<>>
        cache1 == IF use_text THEN gen.cache ELSE cache
        files1 == IF is_image THEN img.files ELSE files
        call == IF use_text
                THEN [key |-> gen.key, reply |-> gen.reply, invoked |-> gen.invoked,
                      failed |-> gen.failed, made |-> TRUE]
                ELSE NoCall
        sending == reply_text # <<>>
        raised == sending /\ in.send = "raises"
        saved == save_processed_messages(Append(ledger, message.id), file, in.write)
    IN  [reply_text |-> reply_text,
         cache |-> cache1,
         files |-> files1,
         call |-> call,
         sent |-> sending /\ ~raised,
         raised |-> raised,
         ledger |-> IF raised THEN ledger ELSE saved.ledger,
         file |-> IF raised THEN file ELSE saved.file]

----------------------------------------------------------------------------
(* Startup: setup_ai_brain and login_to_instagram.                         *)

NoModel == "None"
models_to_try == <<"gemini-1.5-flash", "gemini-1.5-pro", "gemini-2.0-flash">>

\* the test call left out: the first model of the list is adopted as it is
try_models_untested(i, responding) == models_to_try[i]

RECURSIVE try_models(_, _)
try_models(i, responding) ==
    IF i > Len(models_to_try) THEN NoModel
    ELSE IF models_to_try[i] \in responding THEN models_to_try[i]
    ELSE try_models(i + 1, responding)

\* the adopted model, NoModel when setup returns False
setup_ai_brain(configure_ok, responding) ==
    IF configure_ok THEN try_models(1, responding) ELSE NoModel

login_to_instagram(session_exists, session_ok, fresh_ok) ==
    IF session_exists /\ session_ok THEN TRUE ELSE fresh_ok

----------------------------------------------------------------------------
(* The environment: conversations, messages, outcomes of external calls.   *)

Conversations == <<
    [id |-> "t1", hasUsers |-> TRUE, users |-> <<"u1">>],
    [id |-> "t2", hasUsers |-> TRUE, users |-> <<"u1", "u2", "u3">>] >>

ThreadIds == {Conversations[i].id : i \in 1..Len(Conversations)}

hi == <<"h", "i">>
EmpAsk == <<"E", "m", "p", "?">>
ok_raw == <<" ", "o", "k", " ">>

SendOutcomes == {"sent", "raises"}
NoImage == [stage |-> "download_fails", text |-> <<>>]

\* a message as the backend reports it
Message(id, sender, stamp, text, item_type) ==
    [id |-> id, user_id |-> sender, timestamp |-> stamp, text |-> text,
     item_type |-> item_type]

\* the ledger a previous run has left on disk
OldIds == [i \in 1..LEDGER_LIMIT |-> MaxMsgs + i]

\* An environment names what the world outside the bot may do in a
\* specification: the configuration and files it starts from, the messages
\* that arrive (sender, text, item_type by thread) and the outcomes of the
\* calls to the generative backend, the messaging backend and the disk.
SpecEnv ==
    [creators |-> {""},
     files |-> {Missing, Stored(OldIds)},
     responding |-> {{}, {models_to_try[2], models_to_try[3]}},
     messages |-> [t \in ThreadIds |->
                     IF t = "t1"
                     THEN {<<"u1", hi, "text">>, <<"u1", <<>>, "media_share">>,
                           <<"u2", <<>>, "text">>}
                     ELSE {<<"u1", hi, "text">>, <<"u2", EmpAsk, "text">>}],
     backends |-> {BackendFails, BackendSays(ok_raw)},
     picks |-> {1},
     images |-> ImageOutcomes({ok_raw}),
     sends |-> SendOutcomes,
     writes |-> {"written"},
     interrupts |-> {"none"},
     errors |-> MaxErrors]

\* the outcomes of the calls process_message makes for a message: only the
\* calls it makes are drawn
ProcessInputs(env, message) ==
    LET is_image == message.item_type \in {"media_share", "visual_media"}
        is_text == ~is_image /\ message.text # <<>>
    IN  [backend : IF is_text THEN env.backends ELSE {BackendFails},
         pick : IF is_text THEN env.picks ELSE {1},
         image : IF is_image THEN env.images ELSE {NoImage},
         send : IF is_image \/ is_text THEN env.sends ELSE {"sent"},
         write : env.writes,
         interrupt : {"none"}]

NoInputs ==
    [backend |-> BackendFails, pick |-> 1, image |-> NoImage, send |-> "sent",
     write |-> "written", interrupt |-> "none"]

counter(history, thread_id) ==
    IF thread_id \in DOMAIN history THEN Len(history[thread_id]) ELSE 0

NoEvent ==
    [kind |-> "none", id |-> 0, reply |-> FALSE, reason |-> <<>>, entered |-> FALSE,
     sent |-> FALSE, raised |-> FALSE, reply_text |-> <<>>, known |-> FALSE,
     natural_eval |-> FALSE, counter_before |-> 0, counter_after |-> 0,
     cache_full |-> FALSE, pause |-> 0, wrote |-> FALSE, ledger_before |-> <<>>,
     gen_failed |-> FALSE, interrupt |-> "none", configured |-> FALSE,
     responding |-> {}, session_exists |-> FALSE, session_ok |-> FALSE,
     fresh_ok |-> FALSE]

----------------------------------------------------------------------------
(* run().                                                                  *)

Start(env) ==
    /\ pc = "setup"
    /\ model = NoModel
    /\ CREATOR_ID \in env.creators
    /\ processed_msgs = <<>>
    /\ processed_file \in env.files
    /\ response_cache = <<>>
    /\ conversation_history = [t \in {} |-> <<>>]
    /\ error_count = 0
    /\ clock = 0
    /\ inbox = [t \in ThreadIds |-> <<>>]
    /\ threads = <<>>
    /\ temp_images = {}
    /\ issued = 0
    /\ recorded = {}
    /\ last = NoEvent
    /\ calls = <<>>
    /\ log = <<>>

\* Step 1 of run(): setup_ai_brain
SetupAiBrain(env) ==
    /\ pc = "setup"
    /\ \E configure_ok \in BOOLEAN, responding \in env.responding :
          /\ model' = setup_ai_brain(configure_ok, responding)
          /\ pc' = IF model' = NoModel THEN "failed" ELSE "login"
          /\ last' = [NoEvent EXCEPT !.kind = "setup", !.configured = configure_ok,
                                     !.responding = responding]
    /\ UNCHANGED <<CREATOR_ID, processed_msgs, processed_file, response_cache,
                   conversation_history, error_count, clock, inbox, threads,
                   temp_images, issued, recorded, calls, log>>

\* Step 2 of run(): login_to_instagram
LoginToInstagram ==
    /\ pc = "login"
    /\ \E session_exists \in BOOLEAN, session_ok \in BOOLEAN, fresh_ok \in BOOLEAN :
          /\ pc' = IF login_to_instagram(session_exists, session_ok, fresh_ok)
                   THEN "load" ELSE "failed"
          /\ last' = [NoEvent EXCEPT !.kind = "login",
                                     !.session_exists = session_exists,
                                     !.session_ok = session_ok, !.fresh_ok = fresh_ok]
    /\ UNCHANGED <<model, CREATOR_ID, processed_msgs, processed_file, response_cache,
                   conversation_history, error_count, clock, inbox, threads,
                   temp_images, issued, recorded, calls, log>>

\* Step 3 of run(): load_processed_messages, error_count = 0
LoadProcessedMessages ==
    /\ pc = "load"
    /\ processed_msgs' = load_processed_messages(processed_msgs, processed_file)
    /\ error_count' = 0
    /\ pc' = "poll"
    /\ last' = [NoEvent EXCEPT !.kind = "loaded"]
    /\ UNCHANGED <<model, CREATOR_ID, processed_file, response_cache,
                   conversation_history, clock, inbox, threads, temp_images,
                   issued, recorded, calls, log>>

\* the comparison made inclusive: the long sleep from the fifth error on
error_pause_inclusive(count) == IF count >= ERROR_THRESHOLD THEN 300 ELSE 60

\* the except Exception branch of the loop: count, then sleep 300 or 60
error_pause(count) == IF count > ERROR_THRESHOLD THEN 300 ELSE 60

\* threads = self.cl.direct_threads(amount=10), or the call raises
Fetch(env) ==
    /\ pc = "poll"
    /\ \/ /\ threads' = [i \in 1..Len(Conversations) |->
                           [id |-> Conversations[i].id,
                            hasUsers |-> Conversations[i].hasUsers,
                            users |-> Conversations[i].users,
                            messages |-> inbox[Conversations[i].id]]]
          /\ pc' = "pass"
          /\ last' = [NoEvent EXCEPT !.kind = "fetched"]
          /\ UNCHANGED error_count
       \/ /\ error_count < env.errors
          /\ error_count' = error_count + 1
          /\ last' = [NoEvent EXCEPT !.kind = "error", !.pause = error_pause(error_count')]
          /\ UNCHANGED <<threads, pc>>
    /\ UNCHANGED <<model, CREATOR_ID, processed_msgs, processed_file, response_cache,
                   conversation_history, clock, inbox, temp_images, issued,
                   recorded, calls, log>>

\* the thread as should_reply_to_message gets to know it: a KeyboardInterrupt
\* delivered inside is_group_chat is caught by its bare except, which returns
\* False, the answer for a thread without users
heard(thread, at) ==
    IF at = "is_group_chat" THEN [thread EXCEPT !.hasUsers = FALSE] ELSE thread

\* what is remembered of a decision d on the newest message of thread; the
\* natural-conversation branch has been evaluated exactly when the decision
\* is natural_conversation or no_reason
decision_event(thread, d) ==
    [NoEvent EXCEPT
        !.id = thread.messages[1].id, !.reply = d.reply, !.reason = d.reason,
        !.known = thread.messages[1].id \in recorded,
        !.natural_eval = d.reason \in {natural_conversation, no_reason},
        !.counter_before = counter(conversation_history, thread.id),
        !.counter_after = counter(d.history, thread.id)]

\* time.sleep(random.uniform(1, 4)) of process_message lasts at least this long
MIN_DELAY == 1

\* what one iteration of `for thread in threads` does to the state, given the
\* draw of random.random and the outcomes of the calls process_message makes
visit(thread, draw, in) ==
    LET message == thread.messages[1]
        d == should_reply_to_message(message, heard(thread, in.interrupt),
                                     processed_msgs, CREATOR_ID, clock, draw,
                                     conversation_history)
        r == process_message(message, d.reason, processed_msgs, processed_file,
                             response_cache, temp_images, in)
        seen == [decision_event(thread, d) EXCEPT !.interrupt = in.interrupt]
    IN  IF thread.messages = <<>>
        THEN [history |-> conversation_history, ledger |-> processed_msgs,
              file |-> processed_file, cache |-> response_cache, files |-> temp_images,
              recorded |-> recorded, raised |-> FALSE, slept |-> 0,
              event |-> [NoEvent EXCEPT !.kind = "empty"]]
        ELSE IF ~d.reply
        THEN [history |-> d.history, ledger |-> processed_msgs,
              file |-> processed_file, cache |-> response_cache, files |-> temp_images,
              recorded |-> recorded, raised |-> FALSE, slept |-> 0,
              event |-> [seen EXCEPT !.kind = "skipped"]]
        ELSE [history |-> d.history, ledger |-> r.ledger, file |-> r.file,
              cache |-> r.cache, files |-> r.files,
              recorded |-> IF r.raised THEN recorded ELSE recorded \cup {message.id},
              raised |-> r.raised, slept |-> MIN_DELAY,
              event |-> [seen EXCEPT
                            !.kind = IF r.raised THEN "error" ELSE "processed",
                            !.entered = TRUE, !.sent = r.sent, !.raised = r.raised,
                            !.reply_text = r.reply_text,
                            !.cache_full = r.call.made /\ r.call.invoked /\ ~r.call.failed
                                             /\ Len(response_cache) = CACHE_LIMIT,
                            !.gen_failed =
                                \/ r.call.made /\ r.call.failed
                                \/ message.item_type \in image_types /\ in.image.stage # "ok",
                            !.pause = IF r.raised THEN error_pause(error_count + 1) ELSE 0]]

\* the inputs of a visit in which a KeyboardInterrupt is delivered at `at`:
\* nowhere, inside is_group_chat (reached once the message is neither in the
\* ledger, nor too old, nor the bot's own), or inside the try of
\* save_processed_messages (reached when the reply was sent or there was none
\* to send), where it ends the write
InputsAt(env, thread, draw, at) ==
    LET d == should_reply_to_message(thread.messages[1], heard(thread, at),
                                     processed_msgs, CREATOR_ID, clock, draw,
                                     conversation_history)
        drawn == IF d.reply THEN ProcessInputs(env, thread.messages[1]) ELSE {NoInputs}
    IN  CASE at = "is_group_chat" ->
                IF d.reason \in {already_processed, too_old, self_message}
                THEN {}
                ELSE {[p EXCEPT !.interrupt = at] : p \in drawn}
          [] at = "save" ->
                IF d.reply
                THEN {[p EXCEPT !.interrupt = at] :
                         p \in {q \in drawn : q.send = "sent" /\ q.write # "written"}}
                ELSE {}
          [] OTHER -> drawn

VisitInputs(env, thread, draw) ==
    IF thread.messages = <<>>
    THEN {NoInputs}
    ELSE UNION {InputsAt(env, thread, draw, at) : at \in env.interrupts}

\* one iteration of the for loop: decide on the newest message of the next
\* thread and, when told to reply, process_message; an exception of
\* direct_answer ends the pass in the except Exception branch
Visit(env) ==
    /\ pc = "pass"
    /\ threads # <<>>
    /\ \E draw \in BOOLEAN : \E in \in VisitInputs(env, Head(threads), draw) :
          \E v \in {visit(Head(threads), draw, in)} :
              /\ clock + v.slept <= MaxClock
              /\ v.raised => error_count < env.errors
              /\ conversation_history' = v.history
              /\ processed_msgs' = v.ledger
              /\ processed_file' = v.file
              /\ response_cache' = v.cache
              /\ temp_images' = v.files
              /\ recorded' = v.recorded
              /\ log' = IF v.recorded = recorded THEN log
                        ELSE Append(log, CHOOSE id \in v.recorded \ recorded : TRUE)
              /\ clock' = clock + v.slept
              /\ last' = v.event
              /\ error_count' = IF v.raised THEN error_count + 1 ELSE error_count
              /\ threads' = IF v.raised THEN <<>> ELSE Tail(threads)
              /\ pc' = IF v.raised THEN "poll" ELSE "pass"
    /\ UNCHANGED <<model, CREATOR_ID, inbox, issued, calls>>

\* the for loop is over: error_count = 0; the sleep of randint(15, 30) is Tick's
PassDone ==
    /\ pc = "pass"
    /\ threads = <<>>
    /\ error_count' = 0
    /\ pc' = "poll"
    /\ last' = [NoEvent EXCEPT !.kind = "pass_done"]
    /\ UNCHANGED <<model, CREATOR_ID, processed_msgs, processed_file, response_cache,
                   conversation_history, clock, inbox, threads, temp_images, issued,
                   recorded, calls, log>>

\* except KeyboardInterrupt: break
Interrupt ==
    /\ pc \in {"poll", "pass"}
    /\ pc' = "stopped"
    /\ threads' = <<>>
    /\ last' = [NoEvent EXCEPT !.kind = "interrupt", !.interrupt = "loop"]
    /\ UNCHANGED <<model, CREATOR_ID, processed_msgs, processed_file, response_cache,
                   conversation_history, error_count, clock, inbox, temp_images,
                   issued, recorded, calls, log>>

\* the messaging backend receives a message, the newest of its thread, stamped
\* with the time it arrives; the inbox is read by Fetch alone, so it changes
\* between passes
Arrive(env) ==
    /\ pc = "poll"
    /\ issued < MaxMsgs
    /\ issued' = issued + 1
    /\ \E t \in ThreadIds : \E m \in env.messages[t] :
          inbox' = [inbox EXCEPT ![t] = <<Message(issued', m[1], clock, m[2], m[3])>>]
    /\ UNCHANGED <<pc, model, CREATOR_ID, processed_msgs, processed_file,
                   response_cache, conversation_history, error_count, clock, threads,
                   temp_images, recorded, last, calls, log>>

\* time passes between passes: the sleeps of the loop beyond the delay of
\* process_message
Tick ==
    /\ pc = "poll"
    /\ clock < MaxClock
    /\ clock' = clock + 1
    /\ UNCHANGED <<pc, model, CREATOR_ID, processed_msgs, processed_file,
                   response_cache, conversation_history, error_count, inbox, threads,
                   temp_images, issued, recorded, last, calls, log>>

Init == Start(SpecEnv)

Next ==
    \/ SetupAiBrain(SpecEnv)
    \/ LoginToInstagram
    \/ LoadProcessedMessages
    \/ Fetch(SpecEnv)
    \/ Visit(SpecEnv)
    \/ PassDone
    \/ Interrupt
    \/ Arrive(SpecEnv)
    \/ Tick

Spec == Init /\ [][Next]_vars

----------------------------------------------------------------------------
(* Properties of the poll loop (Spec).                                     *)

InLedger(id) == id \in {processed_msgs[k] : k \in 1..Len(processed_msgs)}

\* C1: whenever process_message has been entered for a message, the message
\* id is in the ledger when control is back in the loop, whether
\* direct_answer succeeded or raised.
C1_RecordedOnReturn ==
    last.entered => InLedger(last.id)

\* C2: once a message id has been recorded in the ledger, process_message is
\* never entered for that message again (so no reply is sent or attempted),
\* also after later records have evicted the id from the ledger.
C2_NoReplyAfterRecorded ==
    last.entered => ~last.known

\* a recorded id that has since been evicted from the ledger is met again by a
\* later pass, and is passed over
C2_EvictedIdMetAgain ==
    /\ last.kind = "skipped"
    /\ last.known
    /\ ~InLedger(last.id)
    /\ ~last.reply

\* C3: each evaluation of the natural-conversation branch for a group
\* conversation increases that conversation's counter by one.
C3_CounterCounts ==
    last.natural_eval => last.counter_after = last.counter_before + 1

\* C4: the in-memory ledger never holds more than LEDGER_LIMIT ids and the
\* response cache never more than CACHE_LIMIT entries.
C4_Bounded ==
    /\ Len(processed_msgs) <= LEDGER_LIMIT
    /\ Len(response_cache) <= CACHE_LIMIT

\* a reply has just been stored in a cache that was full, and the ledger is
\* full after an id recorded in this run has been evicted
C4_BothEvicted ==
    /\ last.kind = "processed"
    /\ last.cache_full
    /\ Len(response_cache) = CACHE_LIMIT
    /\ Len(processed_msgs) = LEDGER_LIMIT
    /\ \E id \in recorded : ~InLedger(id)

\* C13: when the text backend call fails, or the image download or
\* description fails, while a message is processed, the reply is a fixed
\* fallback and the message id is in the ledger when control is back in the
\* loop.
C13_FallbackAndRecorded ==
    (last.entered /\ last.gen_failed)
        => /\ \/ last.reply_text = image_fallback
              \/ \E i \in 1..Len(fallbacks) : last.reply_text = fallbacks[i]
           /\ InLedger(last.id)

\* C15: when process_image_message has returned, the file it downloaded into
\* TEMP_DIR for the message is gone, after a description and after a failure
\* of a step that follows the download.
C15_TempFileRemoved ==
    last.entered => last.id \notin temp_images

----------------------------------------------------------------------------
(* should_reply_to_message on its own (DecideSpec): one decision on a       *)
(* message, a conversation, a ledger and a configuration drawn from the    *)
(* sets below.                                                             *)

DecidePieces == {
    <<"@">> \o emperor,
    <<"E","m","p","e","r","o","r">>,
    <<"!","E","M","P","E","R","O","R">>,
    <<"e","m","p">>,
    QMARK,
    <<"h","i"," ">>,
    <<"A","I">>,
    <<"b","o","t">> }

DecideTexts == {<<>>} \cup DecidePieces \cup {p \o q : p \in DecidePieces, q \in DecidePieces}

DecideUsers == {<<>>, <<"u1">>, <<"u1", "u2">>, <<"u1", "u2", "u3">>,
                <<"u1", "u2", "u3", "u4">>}

DecideThreads ==
    {[id |-> "t2", hasUsers |-> FALSE, users |-> <<>>]}
        \cup {[id |-> "t2", hasUsers |-> TRUE, users |-> u] : u \in DecideUsers}

DecideNow == MAX_AGE + 2

InitDecide ==
    /\ pc = "decide"
    /\ model = models_to_try[1]
    /\ CREATOR_ID \in {"", "u1", SELF_ID}
    /\ processed_msgs \in {<<>>, <<2, 1>>}
    /\ processed_file = Missing
    /\ response_cache = <<>>
    /\ conversation_history = [t \in {} |-> <<>>]
    /\ error_count = 0
    /\ clock = DecideNow
    /\ inbox = [t \in ThreadIds |-> <<>>]
    /\ \E thread \in DecideThreads, sender \in {SELF_ID, "u1", "u2"},
          stamp \in 0..DecideNow, text \in DecideTexts :
          threads = << [id |-> thread.id, hasUsers |-> thread.hasUsers,
                        users |-> thread.users,
                        messages |-> <<Message(1, sender, stamp, text, "text")>>] >>
    /\ temp_images = {}
    /\ issued = 1
    /\ recorded = {}
    /\ last = NoEvent
    /\ calls = <<>>
    /\ log = <<>>

\* should_reply, reason = self.should_reply_to_message(latest_message, thread)
Decide ==
    /\ pc = "decide"
    /\ \E draw \in BOOLEAN :
          LET d == should_reply_to_message(threads[1].messages[1], threads[1],
                                           processed_msgs, CREATOR_ID, clock, draw,
                                           conversation_history)
          IN  /\ conversation_history' = d.history
              /\ last' = [decision_event(threads[1], d) EXCEPT !.kind = "decided"]
    /\ pc' = "decided"
    /\ UNCHANGED <<model, CREATOR_ID, processed_msgs, processed_file, response_cache,
                   error_count, clock, inbox, threads, temp_images, issued, recorded,
                   calls, log>>

NextDecide == Decide

DecideSpec == InitDecide /\ [][NextDecide]_vars

\* the message and the conversation the decision was made on
TheMessage == threads[1].messages[1]
TheThread == threads[1]
Age == clock - TheMessage.timestamp
Participants == IF TheThread.hasUsers THEN Len(TheThread.users) ELSE 0
FromCreator == CREATOR_ID # "" /\ TheMessage.user_id = CREATOR_ID
\* none of already_processed, too_old, self_message and creator applies
NoEarlierRule ==
    /\ ~InLedger(TheMessage.id)
    /\ Age <= MAX_AGE
    /\ TheMessage.user_id # SELF_ID
    /\ ~FromCreator
Holds(i) == Contains(triggers[i], lower(TheMessage.text))

\* C5: a message whose id is in the ledger is decided (False, already_processed),
\* whatever its age, sender, text and conversation.
C5_AlreadyProcessed ==
    (pc = "decided" /\ InLedger(TheMessage.id))
        => (~last.reply /\ last.reason = already_processed)

\* a fresh direct message of the creator that is in the ledger
C5_CreatorInLedger ==
    /\ pc = "decided"
    /\ InLedger(TheMessage.id)
    /\ FromCreator /\ TheMessage.user_id # SELF_ID
    /\ Age = 0
    /\ Participants <= GROUP_OVER
    /\ last.reason = already_processed

\* C6: a message not in the ledger and older than MAX_AGE is decided
\* (False, too_old), the creator's included; at age exactly MAX_AGE the
\* decision is not too_old.
C6_TooOld ==
    (pc = "decided" /\ ~InLedger(TheMessage.id))
        => /\ Age > MAX_AGE => (~last.reply /\ last.reason = too_old)
           /\ Age = MAX_AGE => last.reason # too_old

\* a message of the creator just over the limit
C6_StaleCreator ==
    /\ pc = "decided"
    /\ ~InLedger(TheMessage.id)
    /\ FromCreator /\ TheMessage.user_id # SELF_ID
    /\ Age = MAX_AGE + 1
    /\ last.reason = too_old

\* C7: a message not in the ledger, not too old and not the bot's own is
\* decided (True, creator) when CREATOR_ID is set and is its sender, in
\* direct and group conversations and whatever the text; with CREATOR_ID
\* empty no decision is creator.
C7_Creator ==
    pc = "decided"
        => /\ (~InLedger(TheMessage.id) /\ Age <= MAX_AGE
                 /\ TheMessage.user_id # SELF_ID /\ FromCreator)
              => (last.reply /\ last.reason = creator)
           /\ CREATOR_ID = "" => last.reason # creator

\* the creator writes to a group without naming the bot
C7_CreatorInGroup ==
    /\ pc = "decided"
    /\ ~InLedger(TheMessage.id) /\ Age <= MAX_AGE /\ TheMessage.user_id # SELF_ID
    /\ FromCreator
    /\ Participants > GROUP_OVER
    /\ \A i \in 1..Len(triggers) : ~Holds(i)
    /\ last.reply /\ last.reason = creator

\* C8: in a conversation of at most GROUP_OVER participants, a message to
\* which no earlier rule applies is decided (True, dm), whatever its text.
C8_DirectMessage ==
    (pc = "decided" /\ Participants <= GROUP_OVER /\ NoEarlierRule)
        => (last.reply /\ last.reason = dm)

\* two participants and a text that holds a trigger
C8_TwoParticipants ==
    /\ pc = "decided"
    /\ Participants = GROUP_OVER
    /\ NoEarlierRule
    /\ Holds(1)
    /\ last.reply /\ last.reason = dm

\* C9: in a group, a message to which no earlier rule applies and whose
\* lower-cased text holds a trigger is decided (True, trigger_<w>), w the
\* first trigger in configured order that the text holds; the question
\* patterns are not consulted before.
C9_FirstTrigger ==
    (pc = "decided" /\ Participants > GROUP_OVER /\ NoEarlierRule)
        => \A i \in 1..Len(triggers) :
              (Holds(i) /\ \A j \in 1..(i - 1) : ~Holds(j))
                  => (last.reply /\ last.reason = trigger_ \o triggers[i])

\* an upper-case question that holds three triggers and fits a question pattern
C9_SeveralTriggers ==
    /\ pc = "decided"
    /\ Participants > GROUP_OVER
    /\ NoEarlierRule
    /\ TheMessage.text = <<"!","E","M","P","E","R","O","R">> \o QMARK
    /\ Holds(3) /\ Holds(5)
    /\ endswith(lower(TheMessage.text), QMARK) /\ matches_pattern(lower(TheMessage.text))
    /\ last.reply /\ last.reason = trigger_ \o emperor

\* C19: no decision is question_for_emperor; in a group, a message to which
\* no earlier rule applies and whose lower-cased text ends with '?' is
\* decided (True, trigger_<w>).
C19_NeverQuestionForEmperor ==
    pc = "decided"
        => /\ last.reason # question_for_emperor
           /\ (Participants > GROUP_OVER /\ NoEarlierRule
                  /\ endswith(lower(TheMessage.text), QMARK))
                 => /\ last.reply
                    /\ Len(last.reason) > Len(trigger_)
                    /\ SubSeq(last.reason, 1, Len(trigger_)) = trigger_

\* a group question that fits the pattern .*bot.*\? and holds no trigger but '?'
C19_BotQuestion ==
    /\ pc = "decided"
    /\ Participants > GROUP_OVER
    /\ NoEarlierRule
    /\ TheMessage.text = <<"b","o","t">> \o QMARK
    /\ matches_pattern(lower(TheMessage.text))
    /\ \A i \in 1..(Len(triggers) - 1) : ~Holds(i)
    /\ last.reply /\ last.reason = trigger_ \o QMARK

----------------------------------------------------------------------------
(* get_ai_response on its own (GenSpec): a sequence of calls on texts,      *)
(* contexts and backend outcomes drawn from the sets below.                *)

LongX == Repeat("a", KEY_CHARS) \o <<"x">>
LongY == Repeat("a", KEY_CHARS) \o <<"y">>
GenTexts == {hi, LongX, LongY}
GenContexts == {dm, creator}
GenBackends == {BackendFails, BackendSays(ok_raw), BackendSays(Repeat("z", REPLY_MAX + 1))}

\* the last two calls, the one just made being the second
remember(call) == IF calls = <<>> THEN <<call>> ELSE <<calls[Len(calls)], call>>

InitGen ==
    /\ pc = "generate"
    /\ model = models_to_try[1]
    /\ CREATOR_ID = ""
    /\ processed_msgs = <<>>
    /\ processed_file = Missing
    /\ response_cache = <<>>
    /\ conversation_history = [t \in {} |-> <<>>]
    /\ error_count = 0
    /\ clock = 0
    /\ inbox = [t \in ThreadIds |-> <<>>]
    /\ threads = <<>>
    /\ temp_images = {}
    /\ issued = 0
    /\ recorded = {}
    /\ last = NoEvent
    /\ calls = <<>>
    /\ log = <<>>

\* reply_text = self.get_ai_response(text, context)
Generate ==
    /\ pc = "generate"
    /\ \E text \in GenTexts, context \in GenContexts, backend \in GenBackends,
          pick \in 1..Len(fallbacks) :
          LET r == get_ai_response(text, context, response_cache, backend, pick)
          IN  /\ response_cache' = r.cache
              /\ calls' = remember([prefix |-> Take(text, KEY_CHARS), context |-> context,
                                    reply |-> r.reply, invoked |-> r.invoked,
                                    failed |-> r.failed, made |-> TRUE])
    /\ UNCHANGED <<pc, model, CREATOR_ID, processed_msgs, processed_file,
                   conversation_history, error_count, clock, inbox, threads,
                   temp_images, issued, recorded, last, log>>

NextGen == Generate

GenSpec == InitGen /\ [][NextGen]_vars

\* the last two calls were made with the same (text[:50], context)
SameKeyTwice ==
    /\ Len(calls) = 2
    /\ calls[1].prefix = calls[2].prefix
    /\ calls[1].context = calls[2].context

\* C10 as stated: of two consecutive calls with the same (text[:50], context)
\* the second returns the string the first returned and does not invoke the
\* backend.
C10_SecondCallCached ==
    SameKeyTwice => (calls[2].reply = calls[1].reply /\ ~calls[2].invoked)

\* C10 amended: the same, for a first call that did not end in the except
\* branch (it found the key in the cache, or the backend answered).
C10_SecondCallCachedAfterSuccess ==
    (SameKeyTwice /\ ~calls[1].failed)
        => (calls[2].reply = calls[1].reply /\ ~calls[2].invoked)

\* the backend answered the first call, with the cache full, and the second
\* call, on a text that differs after its first 50 characters, is served
\* from the cache
C10_HitAfterStore ==
    /\ SameKeyTwice
    /\ calls[1].invoked /\ ~calls[1].failed
    /\ ~calls[2].invoked
    /\ calls[2].reply = calls[1].reply
    /\ Len(calls[1].prefix) = KEY_CHARS
    /\ Len(response_cache) = CACHE_LIMIT

\* C11: a call of get_ai_response whose backend call fails returns one of the
\* four fallback strings, which is not empty, whatever the text, the context
\* and the cache.
C11_FallbackOnFailure ==
    \A k \in 1..Len(calls) :
        calls[k].failed
            => /\ calls[k].reply # <<>>
               /\ \E i \in 1..Len(fallbacks) : calls[k].reply = fallbacks[i]

\* the backend fails on a text of more than KEY_CHARS characters with the
\* cache full, and the last of the fallbacks is returned
C11_FailureOnFullCache ==
    /\ Len(calls) = 2
    /\ calls[2].failed /\ calls[2].invoked
    /\ Len(calls[2].prefix) = KEY_CHARS
    /\ Len(response_cache) = CACHE_LIMIT
    /\ calls[2].reply = fallbacks[Len(fallbacks)]

----------------------------------------------------------------------------
(* The ledger on its own (LedgerSpec): a process that starts with no file  *)
(* and an empty ledger records distinct ids, with every outcome of the     *)
(* write; the process is restarted, and messages are decided on.           *)

LedgerIds == 1..MaxIds

InitLedger ==
    /\ pc = "first_run"
    /\ model = models_to_try[1]
    /\ CREATOR_ID = ""
    /\ processed_msgs = <<>>
    /\ processed_file = Missing
    /\ response_cache = <<>>
    /\ conversation_history = [t \in {} |-> <<>>]
    /\ error_count = 0
    /\ clock = 0
    /\ inbox = [t \in ThreadIds |-> <<>>]
    /\ threads = <<>>
    /\ temp_images = {}
    /\ issued = 0
    /\ recorded = {}
    /\ last = NoEvent
    /\ calls = <<>>
    /\ log = <<>>

\* self.processed_msgs.append(message_id); self.save_processed_messages()
Record ==
    /\ pc \in {"first_run", "later_run"}
    /\ \E id \in LedgerIds \ recorded, write \in WriteOutcomes :
          \E saved \in {save_processed_messages(Append(processed_msgs, id),
                                                processed_file, write)} :
              /\ processed_msgs' = saved.ledger
              /\ processed_file' = saved.file
              /\ recorded' = recorded \cup {id}
              /\ log' = Append(log, id)
              /\ last' = [NoEvent EXCEPT !.kind = "recorded", !.id = id,
                                         !.wrote = (write = "written"),
                                         !.ledger_before = processed_msgs]
    /\ UNCHANGED <<pc, model, CREATOR_ID, response_cache, conversation_history,
                   error_count, clock, inbox, threads, temp_images, issued, calls>>

\* the process ends and a new one starts: __init__ sets processed_msgs = [],
\* run() calls load_processed_messages
Restart ==
    /\ pc \in {"first_run", "later_run"}
    /\ processed_msgs' = load_processed_messages(<<>>, processed_file)
    /\ pc' = "later_run"
    /\ last' = [NoEvent EXCEPT !.kind = "restarted", !.wrote = last.wrote,
                               !.ledger_before = processed_msgs]
    /\ UNCHANGED <<model, CREATOR_ID, processed_file, response_cache,
                   conversation_history, error_count, clock, inbox, threads,
                   temp_images, issued, recorded, calls, log>>

\* a fresh direct message with one of the ids is decided on
Meet ==
    /\ pc \in {"first_run", "later_run"}
    /\ \E id \in LedgerIds :
          \E d \in {should_reply_to_message(Message(id, "u1", clock, hi, "text"),
                                            [Conversations[1] EXCEPT !.id = "t1"],
                                            processed_msgs, CREATOR_ID, clock, FALSE,
                                            conversation_history)} :
              last' = [NoEvent EXCEPT !.kind = "decided", !.id = id, !.reply = d.reply,
                                     !.reason = d.reason, !.wrote = last.wrote,
                                     !.ledger_before = processed_msgs]
    /\ UNCHANGED <<pc, model, CREATOR_ID, processed_msgs, processed_file,
                   response_cache, conversation_history, error_count, clock, inbox,
                   threads, temp_images, issued, recorded, calls, log>>

NextLedger == Record \/ Restart \/ Meet

LedgerSpec == InitLedger /\ [][NextLedger]_vars

\* the last n elements of s, all of s when it has fewer
LastOf(s, n) == IF Len(s) <= n THEN s ELSE SubSeq(s, Len(s) - n + 1, Len(s))

\* C12: in a process started with an empty ledger, after n distinct ids have
\* been recorded the ledger is the last min(n, LEDGER_LIMIT) of them, in the
\* order they were recorded.
C12_LastRecorded ==
    pc = "first_run" => processed_msgs = LastOf(log, LEDGER_LIMIT)

\* more ids than the ledger holds have been recorded, not in increasing
\* order, and the first ones are gone
C12_OldestEvicted ==
    /\ pc = "first_run"
    /\ Len(log) = MaxIds
    /\ log[1] > log[2]
    /\ ~InLedger(log[1]) /\ ~InLedger(log[MaxIds - LEDGER_LIMIT])
    /\ processed_msgs[LEDGER_LIMIT] = log[MaxIds]

\* C18: after a record whose write succeeded the file holds the in-memory
\* ledger, and a restart then loads that ledger; after a record whose write
\* failed the id is in the in-memory ledger all the same, and a message
\* whose id is in the in-memory ledger is decided already_processed whatever
\* the file holds.  (last.wrote: the latest record's write succeeded.)
C18_FileFollowsLedger ==
    /\ (last.kind = "recorded" /\ last.wrote) => processed_file = Stored(processed_msgs)
    /\ (last.kind = "restarted" /\ last.wrote) => processed_msgs = last.ledger_before
    /\ last.kind = "recorded"
          => /\ InLedger(last.id)
             /\ processed_msgs = LastOf(Append(last.ledger_before, last.id), LEDGER_LIMIT)
    /\ (last.kind = "decided" /\ InLedger(last.id))
          => (~last.reply /\ last.reason = already_processed)

\* a restart has restored the first id from the file; a later record's write
\* failed and left the file unreadable; the id of that record is met and
\* passed over
C18_DecidedFromMemory ==
    /\ pc = "later_run"
    /\ last.kind = "decided" /\ ~last.wrote
    /\ Len(log) = LEDGER_LIMIT
    /\ last.id = log[Len(log)]
    /\ InLedger(log[1]) /\ InLedger(last.id)
    /\ processed_file = Corrupt
    /\ last.reason = already_processed

----------------------------------------------------------------------------
(* The poll loop where the disk and the keyboard interfere (FaultSpec):    *)
(* writes of the ledger file fail, an interrupt is delivered inside        *)
(* is_group_chat or save_processed_messages, the backend answers blanks    *)
(* and messages come without text.                                         *)

blank_raw == <<" ">>

FaultEnv ==
    [creators |-> {""},
     files |-> {Missing},
     responding |-> {{}, {models_to_try[1]}},
     messages |-> [t \in ThreadIds |->
                     IF t = "t1"
                     THEN {<<"u1", hi, "text">>, <<"u1", <<>>, "text">>}
                     ELSE {<<"u2", hi, "text">>}],
     backends |-> {BackendSays(ok_raw), BackendSays(blank_raw)},
     picks |-> {1},
     images |-> {NoImage},
     sends |-> {"sent"},
     writes |-> WriteOutcomes,
     interrupts |-> {"none", "is_group_chat", "save"},
     errors |-> MaxErrors]

InitFault == Start(FaultEnv)

NextFault ==
    \/ SetupAiBrain(FaultEnv)
    \/ LoginToInstagram
    \/ LoadProcessedMessages
    \/ Fetch(FaultEnv)
    \/ Visit(FaultEnv)
    \/ PassDone
    \/ Interrupt
    \/ Arrive(FaultEnv)
    \/ Tick

FaultSpec == InitFault /\ [][NextFault]_vars

\* C14: a KeyboardInterrupt delivered once the poll loop runs leaves the
\* loop stopped, wherever it is delivered.
C14_InterruptStops ==
    last.interrupt # "none" => pc = "stopped"

\* C20: whenever process_message has returned, the message id is in the
\* ledger and a reply was sent exactly when the reply text was not empty;
\* process_message is never entered for an id that was recorded before.
C20_SentIffReplyText ==
    /\ (last.entered /\ ~last.raised)
          => /\ InLedger(last.id)
             /\ last.sent <=> last.reply_text # <<>>
    /\ last.entered => ~last.known

\* a message of a text item type with a text, for which the backend returned
\* blanks only, has been processed: nothing was sent and its id is recorded
C20_BlankReplyRecorded ==
    /\ last.kind = "processed"
    /\ last.entered /\ ~last.raised /\ ~last.sent
    /\ last.reply_text = <<>>
    /\ \E t \in ThreadIds :
          /\ inbox[t] # <<>>
          /\ inbox[t][1].id = last.id
          /\ inbox[t][1].text # <<>>
          /\ inbox[t][1].item_type \notin image_types
    /\ InLedger(last.id)

----------------------------------------------------------------------------
(* Startup on its own (StartSpec): steps 1 to 3 of run() with every set of *)
(* responding models, every outcome of the logins and every ledger file.   *)

StartEnv ==
    [creators |-> {"", "u1"},
     files |-> {Missing, Corrupt, Stored(OldIds)},
     responding |-> SUBSET {models_to_try[i] : i \in 1..Len(models_to_try)},
     messages |-> [t \in ThreadIds |-> {}],
     backends |-> {BackendFails},
     picks |-> {1},
     images |-> {NoImage},
     sends |-> {"sent"},
     writes |-> {"written"},
     interrupts |-> {"none"},
     errors |-> 0]

InitStart == Start(StartEnv)

NextStart ==
    \/ SetupAiBrain(StartEnv)
    \/ LoginToInstagram
    \/ LoadProcessedMessages

StartSpec == InitStart /\ [][NextStart]_vars

\* the place in models_to_try of the model adopted
Adopted == CHOOSE i \in 1..Len(models_to_try) : models_to_try[i] = model

\* C16: the loop is reached only through a model setup that adopted a model
\* which answered the test call and a login that succeeded.  The setup goes
\* on to the login exactly when genai.configure worked and some model
\* answers, and it adopts the first of models_to_try that answers; the login
\* goes on to the loop exactly when the saved session or the fresh login
\* worked; every other outcome ends run() before the loop.
C16_PollOnlyAfterSetupAndLogin ==
    /\ last.kind = "setup"
          => /\ pc = "login" <=> (last.configured /\ last.responding # {})
             /\ pc = "login"
                   => /\ model \in last.responding
                      /\ \A j \in 1..(Adopted - 1) : models_to_try[j] \notin last.responding
             /\ pc # "login" => (pc = "failed" /\ model = NoModel)
    /\ last.kind = "login"
          => /\ pc = "load" <=> \/ last.session_exists /\ last.session_ok
                                \/ last.fresh_ok
             /\ pc # "load" => pc = "failed"
    /\ pc = "login" => last.kind = "setup"
    /\ pc = "load" => last.kind = "login"
    /\ pc = "poll" => last.kind = "loaded"
    /\ pc \in {"login", "load", "poll"} => model # NoModel

\* only the third model answers and is adopted; the saved session fails, the
\* fresh login works and run() goes on to load the ledger
C16_ThirdModelFreshLogin ==
    /\ pc = "load"
    /\ model = models_to_try[3]
    /\ last.session_exists /\ ~last.session_ok /\ last.fresh_ok

----------------------------------------------------------------------------
(* The poll loop where passes fail over and over (BackoffSpec):            *)
(* direct_threads and direct_answer raise up to MaxBackoff times in a row. *)

BackoffEnv ==
    [creators |-> {""},
     files |-> {Missing},
     responding |-> {{models_to_try[1]}},
     messages |-> [t \in ThreadIds |->
                     IF t = "t1" THEN {<<"u1", hi, "text">>} ELSE {}],
     backends |-> {BackendSays(ok_raw)},
     picks |-> {1},
     images |-> {NoImage},
     sends |-> SendOutcomes,
     writes |-> {"written"},
     interrupts |-> {"none"},
     errors |-> MaxBackoff]

InitBackoff == Start(BackoffEnv)

NextBackoff ==
    \/ SetupAiBrain(BackoffEnv)
    \/ LoginToInstagram
    \/ LoadProcessedMessages
    \/ Fetch(BackoffEnv)
    \/ Visit(BackoffEnv)
    \/ PassDone
    \/ Interrupt
    \/ Arrive(BackoffEnv)
    \/ Tick

BackoffSpec == InitBackoff /\ [][NextBackoff]_vars

\* a step of the loop that ends in its except Exception branch
ExceptionStep ==
    /\ pc \in {"poll", "pass"}
    /\ last'.kind = "error"
    /\ (last' # last \/ error_count' # error_count \/ pc' # pc)

\* C17: in the loop, a pass that raises leaves the loop running with the
\* counter one higher and a pause of 60 s while the counter is at most
\* ERROR_THRESHOLD, of 300 s above; a pass that ends without an exception
\* sets the counter to 0; no other step changes the counter.
C17_Backoff ==
    [][ /\ ExceptionStep
              => /\ error_count' = error_count + 1
                 /\ pc' = "poll"
                 /\ last'.pause = IF error_count' <= ERROR_THRESHOLD THEN 60 ELSE 300
        /\ (pc = "pass" /\ last'.kind = "pass_done") => error_count' = 0
        /\ (pc \in {"poll", "pass"} /\ error_count' # error_count)
              => (ExceptionStep \/ (pc = "pass" /\ last'.kind = "pass_done"))
      ]_vars

\* the seventh failure in a row, raised by direct_answer, with the long pause
C17_SeventhFailure ==
    /\ pc = "poll"
    /\ last.kind = "error" /\ last.entered /\ last.raised
    /\ error_count = ERROR_THRESHOLD + 2
    /\ last.pause = 300

====
